---- MODULE Spec2Model ----
(***************************************************************************)
(* Model of the markdown parsing core of wherite (wherite_markdown.go):    *)
(* the inline scanner ParseInlines and the block parser ParseMarkdownBlock *)
(* with its line classifiers and table / task micro-parsers, of the syntax *)
(* tokenizer HighlightMarkdown, and of MarkdownToHTML with the preview     *)
(* handler of the user interface that calls it.                            *)
(*                                                                         *)
(* A Go string is a sequence of one-character strings.  Positions are the  *)
(* 0-based byte offsets of the Go code; At and Slice do the translation.   *)
(***************************************************************************)
EXTENDS Integers, Sequences, FiniteSets, TLC

VARIABLES text, i, inlines, pc,
          markdown, lines, li, blocks, err, bpc, spans,
          hlText, hlLines, hlIndex, currentPos, tokens, hpc,
          contentInput, previewMode, renderedHTML, errorMsg,
          html, previewErr, converterCalled, upc

vars == <<text, i, inlines, pc,
          markdown, lines, li, blocks, err, bpc, spans,
          hlText, hlLines, hlIndex, currentPos, tokens, hpc,
          contentInput, previewMode, renderedHTML, errorMsg,
          html, previewErr, converterCalled, upc>>
inlineVars == <<text, i, inlines, pc>>
blockVars == <<markdown, lines, li, blocks, err, bpc, spans>>
tokenVars == <<hlText, hlLines, hlIndex, currentPos, tokens, hpc>>
previewVars == <<contentInput, previewMode, renderedHTML, errorMsg,
                 html, previewErr, converterCalled, upc>>

----------------------------------------------------------------------------
(* Bounds of the model *)

\* longest text over the whole inline alphabet handed to ParseInlines
MaxLen == 3
\* longest marker-free payload x wrapped in emphasis markers
MaxPlain == 2
\* most lines of a document drawn freely from BaseLines
MaxLines == 2
\* most leading '#' of a heading line
MaxHashes == 8
\* most lines buffered between the fences of a document of FenceDocs
MaxBody == 2
\* most cells of a header row, and most data rows, of a document of TableDocs
MaxCells == 2
MaxRows == 2
\* most bytes after the first two of a line of TaskLines
MaxTaskRest == 4
\* longest url u of a link "[t](u)" of LinkTexts
MaxUrl == 4
\* longest line of ShortLines
MaxShort == 3
\* longest text over HighlightAlphabet handed to HighlightMarkdown, and most
\* lines of a text built from HighlightLines
MaxHighlight == 5
MaxHighlightLines == 2
\* most lines of the quote run of a document of QuoteDocs
MaxQuote == 2
\* most spaces before the opening fence of a document of IndentedFenceDocs
MaxIndent == 2
\* longest text of the content editor, and most pieces the converter writes
MaxContent == 2
MaxWritten == 2

----------------------------------------------------------------------------
(* Go string primitives *)

\* the byte 0x60 (backtick), which a TLA+ string literal cannot hold
Backtick == "BQ"

\* s[k]
At(s, k) == s[k + 1]
\* s[a:b]
Slice(s, a, b) == SubSeq(s, a + 1, b)
\* s[a:]
From(s, a) == SubSeq(s, a + 1, Len(s))

Min(S) == CHOOSE x \in S : \A y \in S : x <= y

\* all strings over an alphabet of length at most n
StringsUpTo(alphabet, n) == UNION {[1..k -> alphabet] : k \in 0..n}

RECURSIVE Flatten(_)
Flatten(ss) == IF ss = <<>> THEN <<>> ELSE Head(ss) \o Flatten(Tail(ss))

----------------------------------------------------------------------------
(* Inline elements *)

InlineTypeText == 0
InlineTypeBold == 1
InlineTypeItalic == 2
InlineTypeStrike == 3
InlineTypeCode == 4
InlineTypeLink == 5
\* InlineTypeBold | 0x10, the flag the code uses for bold+italic
InlineTypeBoldItalic == InlineTypeBold + 16

InlineElement(type, txt, url) == [Type |-> type, Text |-> txt, URL |-> url]

findNextByte(txt, start, byte) ==
    LET hits == {k \in start..(Len(txt) - 1) : At(txt, k) = byte}
    IN  IF hits = {} THEN -1 ELSE Min(hits)

findNextStr(txt, start, str) ==
    LET hits == {k \in start..(Len(txt) - Len(str)) :
                    Slice(txt, k, k + Len(str)) = str}
    IN  IF hits = {} THEN -1 ELSE Min(hits)

\* the loop without its depth counter: the first ')' closes the url
matchParen_FirstParen(txt, k, parenDepth) == findNextByte(txt, k, ")")

\* the depth-counting loop of parseInlineLink, entered at k with depth open
RECURSIVE matchParen(_, _, _)
matchParen(txt, k, parenDepth) ==
    IF k >= Len(txt) THEN -1
    ELSE IF At(txt, k) = "(" THEN matchParen(txt, k + 1, parenDepth + 1)
    ELSE IF At(txt, k) = ")"
         THEN IF parenDepth - 1 = 0 THEN k
              ELSE matchParen(txt, k + 1, parenDepth - 1)
    ELSE matchParen(txt, k + 1, parenDepth)

\* parseInlineLink: ok is "linkElem != nil"
parseInlineLink(txt, start) ==
    LET NoLink == [pos |-> start, ok |-> FALSE,
                   elem |-> InlineElement(InlineTypeText, <<>>, <<>>)]
    IN
    IF start >= Len(txt) \/ (At(txt, start) # "[" /\ At(txt, start) # "!")
    THEN NoLink
    ELSE
    LET isImage == At(txt, start) = "!" IN
    IF isImage /\ (start + 1 >= Len(txt) \/ At(txt, start + 1) # "[")
    THEN NoLink
    ELSE
    LET searchStart == IF isImage THEN start + 2 ELSE start + 1
        closeBracket == findNextByte(txt, searchStart, "]")
    IN
    IF closeBracket = -1 THEN NoLink
    ELSE IF closeBracket + 1 >= Len(txt) \/ At(txt, closeBracket + 1) # "("
    THEN NoLink
    ELSE
    LET closeParen == matchParen(txt, closeBracket + 2, 1) IN
    IF closeParen = -1 THEN NoLink
    ELSE
    LET linkText == IF isImage THEN Slice(txt, searchStart, closeBracket)
                    ELSE Slice(txt, start + 1, closeBracket)
        linkURL == Slice(txt, closeBracket + 2, closeParen)
    IN  [pos |-> closeParen + 1, ok |-> TRUE,
         elem |-> InlineElement(InlineTypeLink, linkText, linkURL)]

----------------------------------------------------------------------------
(* ParseInlines: one iteration of the scan loop at cursor k.               *)
(* Each result is [pos, out, hang]: the cursor after the iteration, the    *)
(* elements appended, and whether a nested ParseInlines call never returns.*)

IsLinkStart(txt, k) == At(txt, k) = "[" \/ At(txt, k) = "!"

IsCodeStart(txt, k) == At(txt, k) = Backtick

IsStrikeStart(txt, k) ==
    k + 1 < Len(txt) /\ At(txt, k) = "~" /\ At(txt, k + 1) = "~"

\* the 3-byte marker is never recognised, so "**" is tried first
IsBoldItalicStart_Skipped(txt, k) == FALSE

IsBoldItalicStart(txt, k) ==
    k + 2 < Len(txt)
    /\ \/ (At(txt, k) = "*" /\ At(txt, k + 1) = "*" /\ At(txt, k + 2) = "*")
       \/ (At(txt, k) = "_" /\ At(txt, k + 1) = "_" /\ At(txt, k + 2) = "_")

IsBoldStart(txt, k) ==
    k + 1 < Len(txt)
    /\ \/ (At(txt, k) = "*" /\ At(txt, k + 1) = "*")
       \/ (At(txt, k) = "_" /\ At(txt, k + 1) = "_")

IsItalicStart(txt, k) == At(txt, k) = "*" \/ At(txt, k) = "_"

\* the branch of the loop body taken at cursor k: the first test that matches
Branch(txt, k) ==
    IF IsLinkStart(txt, k) THEN "link"
    ELSE IF IsCodeStart(txt, k) THEN "code"
    ELSE IF IsStrikeStart(txt, k) THEN "strike"
    ELSE IF IsBoldItalicStart(txt, k) THEN "bolditalic"
    ELSE IF IsBoldStart(txt, k) THEN "bold"
    ELSE IF IsItalicStart(txt, k) THEN "italic"
    ELSE "text"

StepResult(pos, out, hang) == [pos |-> pos, out |-> out, hang |-> hang]

LinkIter(txt, k) ==
    LET r == parseInlineLink(txt, k)
    IN  IF r.ok THEN StepResult(r.pos, <<r.elem>>, FALSE)
        ELSE StepResult(k + 1, <<>>, FALSE)

CodeIter(txt, k) ==
    LET end == findNextByte(txt, k + 1, Backtick)
    IN  IF end > k
        THEN StepResult(end + 1,
                 <<InlineElement(InlineTypeCode, Slice(txt, k + 1, end), <<>>)>>,
                 FALSE)
        ELSE StepResult(k + 1, <<>>, FALSE)

StrikeIter(txt, k) ==
    LET end == findNextStr(txt, k + 2, <<"~", "~">>)
    IN  IF end > k
        THEN StepResult(end + 2,
                 <<InlineElement(InlineTypeStrike, Slice(txt, k + 2, end), <<>>)>>,
                 FALSE)
        ELSE StepResult(k + 2, <<>>, FALSE)

\* innerInlines[0].Type = type, or the whole innerText when nothing was parsed
Retag(innerInlines, innerText, type) ==
    IF Len(innerInlines) > 0
    THEN <<[innerInlines[1] EXCEPT !.Type = type]>> \o Tail(innerInlines)
    ELSE IF Len(innerText) > 0
    THEN <<InlineElement(type, innerText, <<>>)>>
    ELSE <<>>

Punctuation == {".", ",", "!", "?", ":", ";"}

\* the loop that moves end back over sentence punctuation before the closer
RECURSIVE trimPunctuation(_, _, _)
trimPunctuation(txt, k, end) ==
    IF end > k + 1 /\ At(txt, end - 1) \in Punctuation
    THEN trimPunctuation(txt, k, end - 1)
    ELSE end

ItalicIter(txt, k) ==
    LET found == findNextByte(txt, k + 1, At(txt, k))
    IN  IF found > k
        THEN LET end == trimPunctuation(txt, k, found)
             IN  IF end > k
                 THEN StepResult(end,
                          <<InlineElement(InlineTypeItalic,
                                          Slice(txt, k + 1, end), <<>>)>>,
                          FALSE)
                 ELSE StepResult(k + 1, <<>>, FALSE)
        ELSE StepResult(k + 1, <<>>, FALSE)

TextStop == {"*", "_", Backtick, "~", "[", "!"}

\* the inner loop of the plain-text branch: first position at or after k
\* that holds a marker byte, or len(text)
RECURSIVE textRunEnd(_, _)
textRunEnd(txt, k) ==
    IF k < Len(txt) /\ At(txt, k) \notin TextStop
    THEN textRunEnd(txt, k + 1)
    ELSE k

TextIter(txt, k) ==
    LET stop == textRunEnd(txt, k)
    IN  IF k < stop
        THEN StepResult(stop,
                 <<InlineElement(InlineTypeText, Slice(txt, k, stop), <<>>)>>,
                 FALSE)
        ELSE StepResult(stop, <<>>, FALSE)

RECURSIVE ParseFrom(_, _)

\* the recursive call ParseInlines(innerText) of the strong branches
NestedIter(txt, k, width, type) ==
    LET marker == Slice(txt, k, k + width)
        end == findNextStr(txt, k + width, marker)
    IN  IF end > k
        THEN LET innerText == Slice(txt, k + width, end)
                 inner == ParseFrom(innerText, 0)
             IN  StepResult(end + width,
                            Retag(inner.out, innerText, type), inner.hang)
        ELSE StepResult(k + width, <<>>, FALSE)

BoldItalicIter(txt, k) == NestedIter(txt, k, 3, InlineTypeBoldItalic)

BoldIter(txt, k) == NestedIter(txt, k, 2, InlineTypeBold)

ScanIter(txt, k) ==
    LET b == Branch(txt, k)
    IN  CASE b = "link" -> LinkIter(txt, k)
          [] b = "code" -> CodeIter(txt, k)
          [] b = "strike" -> StrikeIter(txt, k)
          [] b = "bolditalic" -> BoldItalicIter(txt, k)
          [] b = "bold" -> BoldIter(txt, k)
          [] b = "italic" -> ItalicIter(txt, k)
          [] OTHER -> TextIter(txt, k)

\* the loop "for i < len(text)" run from cursor k to its end; an iteration
\* that neither moves the cursor nor appends repeats forever (hang)
ParseFrom(txt, k) ==
    IF k >= Len(txt) THEN [out |-> <<>>, hang |-> FALSE]
    ELSE LET r == ScanIter(txt, k)
         IN  IF r.hang \/ r.pos = k
             THEN [out |-> r.out, hang |-> TRUE]
             ELSE LET rest == ParseFrom(txt, r.pos)
                  IN  [out |-> r.out \o rest.out, hang |-> rest.hang]

----------------------------------------------------------------------------
(* Line splitting and the strings helpers the block parser uses *)

\* the white space strings.TrimSpace removes
WhiteSpace == {" ", "\t", "\n", "\r", "\f"}

RECURSIVE TrimLeft(_)
TrimLeft(s) ==
    IF Len(s) > 0 /\ Head(s) \in WhiteSpace THEN TrimLeft(Tail(s)) ELSE s

RECURSIVE TrimRight(_)
TrimRight(s) ==
    IF Len(s) > 0 /\ s[Len(s)] \in WhiteSpace
    THEN TrimRight(SubSeq(s, 1, Len(s) - 1))
    ELSE s

TrimSpace(s) == TrimRight(TrimLeft(s))

\* strings.Contains
Contains(s, sub) == findNextStr(s, 0, sub) # -1

\* strings.Join
RECURSIVE Join(_, _)
Join(ss, sep) ==
    IF Len(ss) = 0 THEN <<>>
    ELSE IF Len(ss) = 1 THEN ss[1]
    ELSE ss[1] \o sep \o Join(Tail(ss), sep)

NL == <<"\n">>

\* the loop of splitLines at byte k, the current line having begun at start
RECURSIVE splitLinesFrom(_, _, _)
splitLinesFrom(txt, start, k) ==
    IF k >= Len(txt)
    THEN IF start < Len(txt) THEN <<From(txt, start)>> ELSE <<>>
    ELSE IF At(txt, k) = "\n"
    THEN <<Slice(txt, start, k)>> \o splitLinesFrom(txt, k + 1, k + 1)
    ELSE splitLinesFrom(txt, start, k + 1)

splitLines(txt) == splitLinesFrom(txt, 0, 0)

----------------------------------------------------------------------------
(* Blocks *)

BlockTypeEmpty == 0
BlockTypeHeading == 1
BlockTypeParagraph == 2
BlockTypeCode == 3
BlockTypeList == 4
BlockTypeTaskList == 5
BlockTypeQuote == 6
BlockTypeHorizontalRule == 7
BlockTypeTable == 8

\* a nil pointer is the empty sequence, a pointer to v the sequence <<v>>
Nil == <<>>
Ref(v) == <<v>>

TaskListData(checked, content) == [Checked |-> checked, Content |-> content]
TableData(headers, rows) == [Headers |-> headers, Rows |-> rows]

\* a MarkdownBlock literal; fields the literal leaves out hold zero values
MarkdownBlock(type, content, level, table, task) ==
    [Type |-> type, Content |-> content, Level |-> level, Inlines |-> <<>>,
     TableData |-> table, TaskData |-> task]

----------------------------------------------------------------------------
(* Line classifiers *)

Fences == {<<Backtick, Backtick, Backtick>>, <<"~", "~", "~">>}

Digits == {"0", "1", "2", "3", "4", "5", "6", "7", "8", "9"}

LowerCase == {"a", "b", "c", "d", "e", "f", "g", "h", "i", "j", "k", "l", "m",
              "n", "o", "p", "q", "r", "s", "t", "u", "v", "w", "x", "y", "z"}

UpperCase == {"A", "B", "C", "D", "E", "F", "G", "H", "I", "J", "K", "L", "M",
              "N", "O", "P", "Q", "R", "S", "T", "U", "V", "W", "X", "Y", "Z"}

\* the bytes isCodeBlock accepts in a language tag
TagChars == LowerCase \cup UpperCase \cup Digits \cup {"+", "#"}

isHeading(line) == IF Len(line) = 0 THEN FALSE ELSE At(line, 0) = "#"

\* the counting loop of parseHeading at byte k with level counted so far
RECURSIVE headingLevel(_, _, _)
headingLevel(line, k, level) ==
    IF k < Len(line) /\ At(line, k) = "#"
    THEN IF level + 1 > 6 THEN level + 1
         ELSE headingLevel(line, k + 1, level + 1)
    ELSE level

parseHeading(line) ==
    LET level == headingLevel(line, 0, 0)
        content == IF level < Len(line) /\ At(line, level) = " "
                   THEN From(line, level + 1)
                   ELSE IF level < Len(line) THEN From(line, level)
                   ELSE <<>>
    IN  [level |-> level, content |-> content]

isCodeBlock(line) ==
    LET trimmed == TrimSpace(line) IN
    IF Len(trimmed) < 3 THEN FALSE
    ELSE IF Slice(trimmed, 0, 3) \notin Fences THEN FALSE
    ELSE LET trimmedRest == TrimSpace(From(trimmed, 3))
         IN  IF Len(trimmedRest) = 0 THEN TRUE
             ELSE \A k \in 1..Len(trimmedRest) : trimmedRest[k] \in TagChars

\* an opening fence carrying a language tag also closes a fence
isCodeBlockEnd_AnyFence(line) == isCodeBlock(line)

isCodeBlockEnd(line) ==
    LET trimmed == TrimSpace(line) IN
    \/ (Len(trimmed) = 3 /\ trimmed \in Fences)
    \/ (Len(trimmed) > 3 /\ Slice(trimmed, 0, 3) \in Fences
        /\ Len(TrimSpace(From(trimmed, 3))) = 0)

isListItem(line) ==
    IF Len(line) = 0 THEN FALSE
    ELSE IF (At(line, 0) = "-" \/ At(line, 0) = "*")
            /\ Len(line) > 1 /\ At(line, 1) = " "
    THEN TRUE
    ELSE IF Len(line) >= 2 /\ At(line, 0) \in Digits /\ At(line, 1) = "."
            /\ Len(line) > 2 /\ At(line, 2) = " "
    THEN TRUE
    ELSE FALSE

\* the empty box "[]" is not recognised: the search always starts at byte 2
closingBracketOf_NoEmptyBox(line) == findNextByte(line, 2, "]")

\* the closing bracket isTaskItem and parseTaskItem both look for
closingBracketOf(line) ==
    IF At(line, 1) = "]" THEN 1 ELSE findNextByte(line, 2, "]")

isTaskItem(line) ==
    IF Len(line) < 4 THEN FALSE
    ELSE IF At(line, 0) # "[" THEN FALSE
    ELSE IF At(line, 1) \notin {" ", "x", "X", "]"} THEN FALSE
    ELSE LET closingBracket == closingBracketOf(line)
         IN  IF closingBracket = -1 THEN FALSE
             ELSE IF closingBracket + 1 < Len(line)
                     /\ At(line, closingBracket + 1) # " "
             THEN FALSE
             ELSE TRUE

parseTaskItem(line) ==
    IF Len(line) < 4 THEN [checked |-> FALSE, content |-> line]
    ELSE LET checked == At(line, 1) = "x" \/ At(line, 1) = "X"
             closingBracket == closingBracketOf(line)
         IN  IF closingBracket = -1
             THEN [checked |-> checked, content |-> line]
             ELSE [checked |-> checked,
                   content |-> TrimSpace(From(line, closingBracket + 1))]

isQuote(line) == Len(line) > 0 /\ At(line, 0) = ">"

isHorizontalRule(line) ==
    IF Len(line) < 3 THEN FALSE
    ELSE IF At(line, 0) \notin {"-", "*", "_"} THEN FALSE
    ELSE \A k \in 1..(Len(line) - 1) :
            At(line, k) = At(line, 0) \/ At(line, k) = " "

isTableLine(line) ==
    LET trimmed == TrimSpace(line)
    IN  Len(trimmed) > 0
        /\ (At(trimmed, 0) = "|" \/ Contains(trimmed, <<" ", "|", " ">>))

\* the splitting loop of splitTableRow at byte k; depth is set to 0 and never
\* changed by the code
RECURSIVE splitCells(_, _, _, _, _)
splitCells(row, k, cell, depth, cells) ==
    IF k >= Len(row)
    THEN IF Len(cell) > 0 THEN Append(cells, TrimSpace(cell)) ELSE cells
    ELSE IF At(row, k) = "|" /\ depth = 0
    THEN splitCells(row, k + 1, <<>>, depth, Append(cells, TrimSpace(cell)))
    ELSE splitCells(row, k + 1, Append(cell, At(row, k)), depth, cells)

splitTableRow(line) ==
    LET row0 == TrimSpace(line)
        row1 == IF At(row0, 0) = "|" THEN From(row0, 1) ELSE row0
        row2 == IF Len(row1) > 0 /\ At(row1, Len(row1) - 1) = "|"
                THEN Slice(row1, 0, Len(row1) - 1)
                ELSE row1
    IN  splitCells(row2, 0, <<>>, 0, <<>>)

isTableSeparator(line) ==
    LET trimmed == TrimSpace(line) IN
    IF Len(trimmed) < 3 \/ At(trimmed, 0) # "|" THEN FALSE
    ELSE LET cells == splitTableRow(trimmed)
         IN  \A c \in 1..Len(cells) :
                LET cell == TrimSpace(cells[c])
                IN  \A k \in 1..Len(cell) : cell[k] \in {"-", ":", " "}

\* the data-row loop of parseTable: the first line at or after k that is not
\* a table line or is a separator
RECURSIVE tableRowsEnd(_, _)
tableRowsEnd(ls, k) ==
    IF k < Len(ls) /\ isTableLine(At(ls, k)) /\ ~isTableSeparator(At(ls, k))
    THEN tableRowsEnd(ls, k + 1)
    ELSE k

parseTable(ls, start) ==
    LET hasHeader == start < Len(ls) /\ isTableLine(At(ls, start))
        headers == IF hasHeader THEN splitTableRow(At(ls, start)) ELSE <<>>
        i1 == IF hasHeader THEN start + 1 ELSE start
        i2 == IF i1 < Len(ls) /\ isTableSeparator(At(ls, i1))
              THEN i1 + 1 ELSE i1
        i3 == tableRowsEnd(ls, i2)
        rows == [r \in 1..(i3 - i2) |-> splitTableRow(At(ls, i2 + r - 1))]
    IN  [end |-> i3, tableData |-> Ref(TableData(headers, rows))]

\* parseLine after its test for the empty line
classifyLine(line) ==
    IF isHeading(line)
    THEN LET h == parseHeading(line)
         IN  MarkdownBlock(BlockTypeHeading, h.content, h.level, Nil, Nil)
    ELSE IF isCodeBlock(line)
    THEN MarkdownBlock(BlockTypeCode, line, 0, Nil, Nil)
    ELSE IF isListItem(line)
    THEN MarkdownBlock(BlockTypeList, line, 0, Nil, Nil)
    ELSE IF isTaskItem(line)
    THEN LET t == parseTaskItem(line)
         IN  MarkdownBlock(BlockTypeTaskList, <<>>, 0, Nil,
                           Ref(TaskListData(t.checked, t.content)))
    ELSE IF isQuote(line)
    THEN MarkdownBlock(BlockTypeQuote, From(line, 1), 0, Nil, Nil)
    ELSE IF isHorizontalRule(line)
    THEN MarkdownBlock(BlockTypeHorizontalRule, <<>>, 0, Nil, Nil)
    ELSE MarkdownBlock(BlockTypeParagraph, line, 0, Nil, Nil)

\* the empty line is classified like any other line
parseLine_KeepsEmpty(line) == classifyLine(line)

parseLine(line) ==
    IF line = <<>>
    THEN MarkdownBlock(BlockTypeEmpty, <<>>, 0, Nil, Nil)
    ELSE classifyLine(line)

----------------------------------------------------------------------------
(* ParseMarkdownBlock: one iteration of the outer loop at line cursor k.   *)
(* Each result is [pos, out]: the cursor after the iteration and the       *)
(* blocks appended.                                                        *)

\* the buffering loop also ends at a blank line
RECURSIVE fenceBodyEnd_StopsAtBlank(_, _)
fenceBodyEnd_StopsAtBlank(ls, k) ==
    IF k < Len(ls) /\ ~isCodeBlockEnd(At(ls, k)) /\ At(ls, k) # <<>>
    THEN fenceBodyEnd_StopsAtBlank(ls, k + 1)
    ELSE k

\* the buffering loop of the fence branch: first closing fence at or after k
RECURSIVE fenceBodyEnd(_, _)
fenceBodyEnd(ls, k) ==
    IF k < Len(ls) /\ ~isCodeBlockEnd(At(ls, k))
    THEN fenceBodyEnd(ls, k + 1)
    ELSE k

\* the cursor moves past the end marker without testing that there is one
skipFenceEnd_Unguarded(ls, k) == k + 1

\* "skip the end marker": the cursor after the fence run whose body ends at k
skipFenceEnd(ls, k) ==
    IF k < Len(ls) /\ isCodeBlockEnd(At(ls, k)) THEN k + 1 ELSE k

\* the language tag the fence branch takes from the opening line
fenceLang(line) == TrimSpace(From(line, 3))

\* the content of the CodeFence block built from lang and the buffered lines
fenceContent(lang, codeLines) ==
    IF Len(codeLines) > 0
    THEN IF lang # <<>> THEN lang \o NL \o Join(codeLines, NL)
         ELSE Join(codeLines, NL)
    ELSE <<>>

FenceIter(ls, k) ==
    LET lang == fenceLang(At(ls, k))
        bodyEnd == fenceBodyEnd(ls, k + 1)
        codeLines == Slice(ls, k + 1, bodyEnd)
    IN  [pos |-> skipFenceEnd(ls, bodyEnd),
         out |-> <<MarkdownBlock(BlockTypeCode, fenceContent(lang, codeLines),
                                 0, Nil, Nil)>>]

\* only the ">" is removed: a following space is kept
stripQuote_KeepsSpace(quoteLine) ==
    IF Len(quoteLine) > 1 THEN From(quoteLine, 1) ELSE <<>>

\* one quote line without its ">" and at most one following space
stripQuote(quoteLine) ==
    IF Len(quoteLine) > 1 /\ At(quoteLine, 1) = " " THEN From(quoteLine, 2)
    ELSE IF Len(quoteLine) > 1 THEN From(quoteLine, 1)
    ELSE <<>>

RECURSIVE quoteRunEnd(_, _)
quoteRunEnd(ls, k) ==
    IF k < Len(ls) /\ isQuote(At(ls, k)) THEN quoteRunEnd(ls, k + 1) ELSE k

QuoteIter(ls, k) ==
    LET end == quoteRunEnd(ls, k)
        quoteLines == [q \in 1..(end - k) |-> stripQuote(At(ls, k + q - 1))]
    IN  [pos |-> end,
         out |-> <<MarkdownBlock(BlockTypeQuote, Join(quoteLines, NL),
                                 0, Nil, Nil)>>]

\* the Table block is emitted whatever the number of headers
TableIter_KeepsEmptyHeader(ls, k) ==
    [pos |-> parseTable(ls, k).end,
     out |-> <<MarkdownBlock(BlockTypeTable, <<>>, 0,
                             parseTable(ls, k).tableData, Nil)>>]

\* the Table block is built without its TableData
TableIter_NoTableData(ls, k) ==
    [pos |-> parseTable(ls, k).end,
     out |-> <<MarkdownBlock(BlockTypeTable, <<>>, 0, Nil, Nil)>>]

TableIter(ls, k) ==
    LET t == parseTable(ls, k)
    IN  [pos |-> t.end,
         out |-> IF t.tableData # Nil /\ Len(t.tableData[1].Headers) > 0
                 THEN <<MarkdownBlock(BlockTypeTable, <<>>, 0,
                                      t.tableData, Nil)>>
                 ELSE <<>>]

LineIter(ls, k) ==
    LET block == parseLine(At(ls, k))
    IN  [pos |-> k + 1,
         out |-> IF block.Type # BlockTypeEmpty THEN <<block>> ELSE <<>>]

\* heading and list lines are handed to parseLine before the table test
BlockBranch_LineBeforeTable(ls, k) ==
    IF isCodeBlock(At(ls, k)) THEN "fence"
    ELSE IF isQuote(At(ls, k)) THEN "quote"
    ELSE IF isHeading(At(ls, k)) \/ isListItem(At(ls, k)) THEN "line"
    ELSE IF isTableLine(At(ls, k)) THEN "table"
    ELSE "line"

\* the branch of the outer loop body taken at line k
BlockBranch(ls, k) ==
    IF isCodeBlock(At(ls, k)) THEN "fence"
    ELSE IF isQuote(At(ls, k)) THEN "quote"
    ELSE IF isTableLine(At(ls, k)) THEN "table"
    ELSE "line"

BlockIter(ls, k) ==
    LET b == BlockBranch(ls, k)
    IN  CASE b = "fence" -> FenceIter(ls, k)
          [] b = "quote" -> QuoteIter(ls, k)
          [] b = "table" -> TableIter(ls, k)
          [] OTHER -> LineIter(ls, k)

----------------------------------------------------------------------------
(* Run-time range checks.  Go panics when s[k] has k outside 0..len(s)-1   *)
(* or s[a:b] has not 0 <= a <= b <= len(s).  For every function the        *)
(* operator <name>Panics is TRUE when one of the index or slice            *)
(* expressions the function evaluates on that input is out of range; the   *)
(* tests follow the function's own guards and short-circuit order.         *)

InRange(s, k) == 0 <= k /\ k < Len(s)
SliceInRange(s, a, b) == 0 <= a /\ a <= b /\ b <= Len(s)

\* line[0]
isHeadingPanics(line) == Len(line) # 0 /\ ~InRange(line, 0)

\* line[level], line[level+1:], line[level:]
parseHeadingPanics(line) ==
    LET level == headingLevel(line, 0, 0) IN
    /\ level < Len(line)
    /\ \/ ~InRange(line, level)
       \/ At(line, level) = " " /\ ~SliceInRange(line, level + 1, Len(line))
       \/ At(line, level) # " " /\ ~SliceInRange(line, level, Len(line))

\* trimmed[:3], trimmed[3:]
isCodeBlockPanics(line) ==
    LET trimmed == TrimSpace(line) IN
    /\ Len(trimmed) >= 3
    /\ \/ ~SliceInRange(trimmed, 0, 3)
       \/ Slice(trimmed, 0, 3) \in Fences
          /\ ~SliceInRange(trimmed, 3, Len(trimmed))

\* trimmed[:3], trimmed[3:]
isCodeBlockEndPanics(line) ==
    LET trimmed == TrimSpace(line) IN
    /\ Len(trimmed) > 3
    /\ \/ ~SliceInRange(trimmed, 0, 3)
       \/ Slice(trimmed, 0, 3) \in Fences
          /\ ~SliceInRange(trimmed, 3, Len(trimmed))

\* line[0], line[1], line[2]
isListItemPanics(line) ==
    /\ Len(line) # 0
    /\ \/ ~InRange(line, 0)
       \/ At(line, 0) \in {"-", "*"} /\ Len(line) > 1 /\ ~InRange(line, 1)
       \/ Len(line) >= 2 /\ At(line, 0) \in Digits /\ ~InRange(line, 1)
       \/ Len(line) >= 2 /\ At(line, 0) \in Digits /\ At(line, 1) = "."
          /\ Len(line) > 2 /\ ~InRange(line, 2)

\* line[0], line[1], line[closingBracket+1]
isTaskItemPanics(line) ==
    /\ Len(line) >= 4
    /\ \/ ~InRange(line, 0)
       \/ At(line, 0) = "[" /\ ~InRange(line, 1)
       \/ /\ At(line, 0) = "["
          /\ At(line, 1) \in {" ", "x", "X", "]"}
          /\ LET closingBracket == closingBracketOf(line)
             IN  /\ closingBracket # -1
                 /\ closingBracket + 1 < Len(line)
                 /\ ~InRange(line, closingBracket + 1)

\* line[1], line[closingBracket+1:]
parseTaskItemPanics(line) ==
    /\ Len(line) >= 4
    /\ \/ ~InRange(line, 1)
       \/ LET closingBracket == closingBracketOf(line)
          IN  /\ closingBracket # -1
              /\ ~SliceInRange(line, closingBracket + 1, Len(line))

\* line[0], line[i]
isHorizontalRulePanics(line) == Len(line) >= 3 /\ ~InRange(line, 0)

\* trimmed[0]
isTableLinePanics(line) ==
    LET trimmed == TrimSpace(line)
    IN  Len(trimmed) > 0 /\ ~InRange(trimmed, 0)

\* row[0] is read with no test of len(row); row[1:], row[len(row)-1] and
\* row[:len(row)-1] follow it
splitTableRowPanics(line) ==
    LET row0 == TrimSpace(line) IN
    \/ ~InRange(row0, 0)
    \/ At(row0, 0) = "|" /\ ~SliceInRange(row0, 1, Len(row0))

\* the test of len(trimmed) is missing: trimmed[0] is read on every line
isTableSeparatorPanics_NoLenTest(line) ==
    LET trimmed == TrimSpace(line) IN
    \/ ~InRange(trimmed, 0)
    \/ At(trimmed, 0) = "|" /\ splitTableRowPanics(trimmed)

\* trimmed[0], then splitTableRow(trimmed)
isTableSeparatorPanics(line) ==
    LET trimmed == TrimSpace(line) IN
    /\ Len(trimmed) >= 3
    /\ \/ ~InRange(trimmed, 0)
       \/ At(trimmed, 0) = "|" /\ splitTableRowPanics(trimmed)

\* the calls parseTable makes on the header, the separator, every data row
\* and the line that ends the data rows
parseTablePanics(ls, start) ==
    LET hasHeader == start < Len(ls) /\ isTableLine(At(ls, start))
        i1 == IF hasHeader THEN start + 1 ELSE start
    IN
    \/ start < Len(ls) /\ isTableLinePanics(At(ls, start))
    \/ hasHeader /\ splitTableRowPanics(At(ls, start))
    \/ i1 < Len(ls) /\ isTableSeparatorPanics(At(ls, i1))
    \/ LET i2 == IF i1 < Len(ls) /\ isTableSeparator(At(ls, i1))
                 THEN i1 + 1 ELSE i1
           i3 == tableRowsEnd(ls, i2)
       IN  \/ \E k \in i2..(i3 - 1) :
                \/ isTableLinePanics(At(ls, k))
                \/ isTableSeparatorPanics(At(ls, k))
                \/ splitTableRowPanics(At(ls, k))
           \/ /\ i3 < Len(ls)
              /\ \/ isTableLinePanics(At(ls, i3))
                 \/ isTableLine(At(ls, i3))
                    /\ isTableSeparatorPanics(At(ls, i3))

\* the classifiers parseLine calls in order, and line[1:] of a quote line
parseLinePanics(line) ==
    /\ line # <<>>
    /\ \/ isHeadingPanics(line)
       \/ isHeading(line) /\ parseHeadingPanics(line)
       \/ /\ ~isHeading(line)
          /\ \/ isCodeBlockPanics(line)
             \/ /\ ~isCodeBlock(line)
                /\ \/ isListItemPanics(line)
                   \/ /\ ~isListItem(line)
                      /\ \/ isTaskItemPanics(line)
                         \/ isTaskItem(line) /\ parseTaskItemPanics(line)
                         \/ /\ ~isTaskItem(line)
                            /\ isQuote(line)
                            /\ ~SliceInRange(line, 1, Len(line))
                         \/ /\ ~isTaskItem(line)
                            /\ ~isQuote(line)
                            /\ isHorizontalRulePanics(line)

\* quoteLine[1], quoteLine[2:], quoteLine[1:]
stripQuotePanics(quoteLine) ==
    /\ Len(quoteLine) > 1
    /\ \/ ~InRange(quoteLine, 1)
       \/ At(quoteLine, 1) = " " /\ ~SliceInRange(quoteLine, 2, Len(quoteLine))
       \/ At(quoteLine, 1) # " " /\ ~SliceInRange(quoteLine, 1, Len(quoteLine))

\* line[3:] of the opening line, then isCodeBlockEnd on every line read
FenceIterPanics(ls, k) ==
    \/ ~SliceInRange(At(ls, k), 3, Len(At(ls, k)))
    \/ \E b \in (k + 1)..Min({fenceBodyEnd(ls, k + 1), Len(ls) - 1}) :
          isCodeBlockEndPanics(At(ls, b))

QuoteIterPanics(ls, k) ==
    \E q \in k..(quoteRunEnd(ls, k) - 1) : stripQuotePanics(At(ls, q))

\* one iteration of the outer loop at line k reads out of range
BlockIterPanics(ls, k) ==
    LET line == At(ls, k)
        b == BlockBranch(ls, k)
    IN  \/ isCodeBlockPanics(line)
        \/ b \in {"table", "line"} /\ isTableLinePanics(line)
        \/ b = "fence" /\ FenceIterPanics(ls, k)
        \/ b = "quote" /\ QuoteIterPanics(ls, k)
        \/ b = "table" /\ parseTablePanics(ls, k)
        \/ b = "line" /\ parseLinePanics(line)

----------------------------------------------------------------------------
(* The inline scanner as a state machine: pc is "scan" inside the loop,    *)
(* "done" after the return, "hung" inside a nested call that never returns *)

InlineAlphabet == {"*", "_", Backtick, "~", "[", "]", "(", ")", "!", ".", "a"}
PlainAlphabet == {"a", ".", "]", "("}

EmphasisMarkers ==
    {<<"*">>, <<"_">>, <<"*", "*">>, <<"_", "_">>,
     <<"*", "*", "*">>, <<"_", "_", "_">>, <<"~", "~">>, <<Backtick>>}

PlainTexts == StringsUpTo(PlainAlphabet, MaxPlain) \ {<<>>}

\* m x m and m x : a payload wrapped in, or only opened by, a marker
WrappedTexts == {m \o x \o m : m \in EmphasisMarkers, x \in PlainTexts}
OpenedTexts == {m \o x : m \in EmphasisMarkers, x \in PlainTexts}

\* the depth of open parentheses after u[k..], started at depth d; -1 when
\* a ')' has no '(' before it
RECURSIVE parenDepthFrom(_, _, _)
parenDepthFrom(u, k, d) ==
    IF k > Len(u) THEN d
    ELSE IF u[k] = "(" THEN parenDepthFrom(u, k + 1, d + 1)
    ELSE IF u[k] = ")"
         THEN IF d = 0 THEN -1 ELSE parenDepthFrom(u, k + 1, d - 1)
    ELSE parenDepthFrom(u, k + 1, d)

\* urls whose parentheses are balanced and properly nested
BalancedUrls ==
    {u \in StringsUpTo({"a", "(", ")"}, MaxUrl) : parenDepthFrom(u, 1, 0) = 0}
\* link texts: none holds a ']'
LinkLabels == {<<>>, <<"x">>, <<"*", "x">>, <<"[", "x">>}
\* what follows the link: nothing, or one byte of plain text
LinkTails == {<<>>, <<"a">>, <<")">>}
LinkText(t, u, tail) == <<"[">> \o t \o <<"]", "(">> \o u \o <<")">> \o tail
LinkTexts ==
    {LinkText(t, u, tail) :
        t \in LinkLabels, u \in BalancedUrls, tail \in LinkTails}

\* an emphasis span whose payload ends in sentence punctuation: "*a.*"
PunctuatedTexts ==
    {m \o <<"a", p>> \o m : m \in {<<"*">>, <<"_">>}, p \in Punctuation}

\* two emphasis spans of one marker with text between them: "*a* a *a*"
SpanGaps == {<<" ">>, <<" ", "a", " ">>}

SpanPairTexts ==
    {m \o <<"a">> \o m \o g \o m \o <<"a">> \o m :
        m \in {<<"*">>, <<"_">>}, g \in SpanGaps}

\* a link whose text holds a backslash-escaped ']': "[a\]a](a)"
Backslash == "\\"

EscapedLabel == <<"a", Backslash, "]", "a">>

EscapedLinkTexts == {<<"[">> \o EscapedLabel \o <<"]", "(", "a", ")">>}

\* an emphasis span nested in a strong span: "**_a_**", "__*a*__"
NestedEmphasisTexts ==
    {<<"*", "*", "_", "a", "_", "*", "*">>,
     <<"_", "_", "*", "a", "*", "_", "_">>}

\* a payload between matched 3-byte delimiters: "***a***", "___a___"
TripleTexts ==
    {<<m, m, m, "a", m, m, m>> : m \in {"*", "_"}}

InlineTexts ==
    StringsUpTo(InlineAlphabet, MaxLen) \cup WrappedTexts \cup OpenedTexts
        \cup LinkTexts \cup PunctuatedTexts \cup SpanPairTexts
        \cup EscapedLinkTexts \cup NestedEmphasisTexts \cup TripleTexts

PreviewIdle ==
    /\ contentInput = <<>>
    /\ previewMode = FALSE
    /\ renderedHTML = <<>>
    /\ errorMsg = <<>>
    /\ html = <<>>
    /\ previewErr = "nil"
    /\ converterCalled = FALSE
    /\ upc = "idle"

TokenIdle ==
    /\ hlText = <<>>
    /\ hlLines = <<>>
    /\ hlIndex = 0
    /\ currentPos = 0
    /\ tokens = <<>>
    /\ hpc = "idle"

BlockIdle ==
    /\ markdown = <<>>
    /\ lines = <<>>
    /\ li = 0
    /\ blocks = <<>>
    /\ err = "unset"
    /\ bpc = "idle"
    /\ spans = <<>>

InitInline ==
    /\ text \in InlineTexts
    /\ i = 0
    /\ inlines = <<>>
    /\ pc = "scan"
    /\ BlockIdle
    /\ TokenIdle
    /\ PreviewIdle

\* the loop is at cursor i and its body takes the given branch
Scanning(branch) ==
    /\ pc = "scan"
    /\ i < Len(text)
    /\ Branch(text, i) = branch

\* the effect of one iteration of the loop body on i and inlines
Iterate(r) ==
    /\ i' = r.pos
    /\ inlines' = inlines \o r.out
    /\ pc' = IF r.hang THEN "hung" ELSE "scan"
    /\ UNCHANGED <<text, blockVars, tokenVars, previewVars>>

LinkStep ==
    /\ Scanning("link")
    /\ Iterate(LinkIter(text, i))

CodeStep ==
    /\ Scanning("code")
    /\ Iterate(CodeIter(text, i))

StrikeStep ==
    /\ Scanning("strike")
    /\ Iterate(StrikeIter(text, i))

BoldItalicStep ==
    /\ Scanning("bolditalic")
    /\ Iterate(BoldItalicIter(text, i))

BoldStep ==
    /\ Scanning("bold")
    /\ Iterate(BoldIter(text, i))

ItalicStep ==
    /\ Scanning("italic")
    /\ Iterate(ItalicIter(text, i))

TextStep ==
    /\ Scanning("text")
    /\ Iterate(TextIter(text, i))

\* the loop condition fails: return inlines
InlineReturn ==
    /\ pc = "scan"
    /\ i >= Len(text)
    /\ pc' = "done"
    /\ UNCHANGED <<text, i, inlines, blockVars, tokenVars, previewVars>>

NextInline ==
    \/ LinkStep
    \/ CodeStep
    \/ StrikeStep
    \/ BoldItalicStep
    \/ BoldStep
    \/ ItalicStep
    \/ TextStep
    \/ InlineReturn

SpecInline == InitInline /\ [][NextInline]_vars

----------------------------------------------------------------------------
(* The block parser as a state machine: bpc is "start" at the call, "loop" *)
(* inside the outer loop, "done" after the return, "panic" after an index  *)
(* or slice expression out of range.                                       *)

\* every line of a document followed by a newline
Unsplit(doc) == Flatten([k \in 1..Len(doc) |-> doc[k] \o NL])

BaseLines ==
    {<<>>, <<" ">>, <<"a">>, <<"#", " ", "a">>, <<"-", " ", "a">>,
     <<">", " ", "a">>, <<">">>, <<"-", "-", "-">>,
     <<Backtick, Backtick, Backtick>>,
     <<Backtick, Backtick, Backtick, "g", "o">>,
     <<"|", " ", "a", " ", "|">>, <<"|", "-", "|">>, <<"|">>,
     <<"a", " ", "|", " ", "b">>, <<"[", "x", "]", " ", "a">>}

BaseDocs == StringsUpTo(BaseLines, MaxLines)

Hashes(n) == [k \in 1..n |-> "#"]
HeadingTails == {<<>>, <<" ">>, <<"a">>, <<" ", "a">>}
HeadingLines == {Hashes(n) \o t : n \in 1..MaxHashes, t \in HeadingTails}

FenceIndents == {<<>>, <<" ">>}
FenceTags == {<<>>, <<"g", "o">>}
FenceOpens == {ind \o f \o tag : ind \in FenceIndents, f \in Fences,
                                  tag \in FenceTags}
FenceCloses == Fences \cup {<<" ", Backtick, Backtick, Backtick, " ">>}
\* lines that are no closing fence
FenceBodyLines ==
    {<<>>, <<"a">>, <<"#", " ", "a">>,
     <<Backtick, Backtick, Backtick, "g", "o">>}
FenceBodies == StringsUpTo(FenceBodyLines, MaxBody)
AroundFence == {<<>>, << <<"a">> >>}

\* an opening fence, buffered lines, a closing fence, perhaps a line after
ClosedFenceDocs ==
    {<<open>> \o body \o <<close>> \o post :
        open \in FenceOpens, body \in FenceBodies,
        close \in FenceCloses, post \in AroundFence}

\* perhaps a line before, an opening fence and lines up to the end of input
OpenFenceDocs ==
    {pre \o <<open>> \o body :
        pre \in AroundFence, open \in FenceOpens, body \in FenceBodies}

TableCells == {<<"a">>, <<" ", "b", " ">>, <<>>}
CellLists == StringsUpTo(TableCells, MaxCells) \ {<<>>}
DataCellLists == {<<<<"1">>>>, <<<<"1">>, <<" ", "2">>>>, <<<<>>, <<"a">>>>}
SeparatorRows == {<<"|", "-", "|", "-", "|">>, <<"|", ":", "-", "|">>}

\* a row written as pipe-delimited cells with a leading and a trailing pipe
TableRow(cells) == <<"|">> \o Join(cells, <<"|">>) \o <<"|">>

TableDocs ==
    {<<TableRow(h), sep>> \o [r \in 1..Len(d) |-> TableRow(d[r])] :
        h \in CellLists, sep \in SeparatorRows,
        d \in StringsUpTo(DataCellLists, MaxRows)}

TaskSeconds == {" ", "x", "X", "]"}
TaskRestAlphabet == {"]", " ", "a", "|"}
TaskLines ==
    {<<"[", c>> \o r : c \in TaskSeconds,
                       r \in StringsUpTo(TaskRestAlphabet, MaxTaskRest)}

\* lines that outside a fence are a heading, a list item, a task item, a
\* quote, a table row, a rule, a paragraph, a blank line, white space and an
\* opening fence with a language tag; none is a closing fence
KindLines ==
    {<<"#", " ", "a">>, <<"-", " ", "a">>, <<"[", "x", "]", " ", "a">>,
     <<">", " ", "a">>, <<"|", " ", "a", " ", "|">>, <<"-", "-", "-">>,
     <<"a">>, <<>>, <<" ", " ">>, <<Backtick, Backtick, Backtick, "g", "o">>}
GreedyOpens ==
    {<<Backtick, Backtick, Backtick>>, <<"~", "~", "~">>,
     <<Backtick, Backtick, Backtick, "g", "o">>}
GreedyBodies == StringsUpTo(KindLines, MaxBody) \ {<<>>}
\* an opening fence, lines of every kind, and a closing fence or the end
GreedyDocs ==
    {<<open>> \o body \o close :
        open \in GreedyOpens, body \in GreedyBodies,
        close \in {<<>>, << <<Backtick, Backtick, Backtick>> >>}}

\* an opening fence after 0..MaxIndent spaces, one line, perhaps a closing
\* fence
Spaces(n) == [k \in 1..n |-> " "]
IndentedFenceDocs ==
    {<<Spaces(n) \o f \o tag, <<"a">> >> \o close :
        n \in 0..MaxIndent, f \in Fences, tag \in FenceTags,
        close \in {<<>>, << <<Backtick, Backtick, Backtick>> >>}}

\* lines that more than one classifier matches, and lines of one kind each
PriorityLines ==
    {<<"-", " ", "-", " ", "-">>, <<"*", " ", "*", " ", "*">>,
     <<"#", " ", "a", " ", "|", " ", "b">>,
     <<"-", " ", "a", " ", "|", " ", "b">>,
     <<">", " ", "a", " ", "|", " ", "b">>, <<">", " ", "-", "-", "-">>,
     <<Backtick, Backtick, Backtick, "g", "o", " ", "|", " ", "b">>,
     <<"[", "x", "]", " ", "a">>, <<"[", " ", "]", " ", "-", "-", "-">>,
     <<"-", "-", "-">>, <<"*", "*", "*">>, <<"_", " ", "_", " ", "_">>,
     <<"1", ".", " ", "a">>, <<"#", "-", " ", "a">>, <<"a", " ", "#">>}
PriorityDocs == {<<l>> : l \in PriorityLines}

\* a run of lines starting with ">", perhaps followed by one other line
QuoteLines ==
    {<<">">>, <<">", " ">>, <<">", "a">>, <<">", " ", "a">>,
     <<">", " ", " ", "a">>, <<">", ">", " ", "a">>,
     <<">", " ", "#", " ", "a">>}
QuoteRuns == StringsUpTo(QuoteLines, MaxQuote) \ {<<>>}
QuotePosts ==
    {<<>>, << <<"a">> >>, << <<>> >>, << <<"#", " ", "a">> >>,
     << <<" ", ">", " ", "a">> >>}
QuoteDocs == {run \o post : run \in QuoteRuns, post \in QuotePosts}

\* a header row with one backticked cell that holds a '|', and a separator
BacktickCells ==
    {<<Backtick, "a", "|", "b", Backtick>>, <<Backtick, "|", Backtick>>}
BacktickCellLists ==
    UNION {{<<c>>, <<c, <<"c">> >>, << <<"c">>, c>>} : c \in BacktickCells}
BacktickDocs ==
    {<<TableRow(h), sep>> : h \in BacktickCellLists, sep \in SeparatorRows}

\* a first row that splits into no cell, then perhaps a separator, a data
\* row and a paragraph line
EmptyHeaderRows == {<<"|">>, <<"|", "|">>, <<" ", "|", " ">>}
EmptyHeaderDocs ==
    {<<h>> \o sep \o row \o post :
        h \in EmptyHeaderRows,
        sep \in {<<>>} \cup {<<r>> : r \in SeparatorRows},
        row \in {<<>>, << <<"|", "1", "|">> >>},
        post \in AroundFence}

\* short lines of white space, pipes and the bytes the classifiers index,
\* alone and after a table header
ShortAlphabet == {" ", "|", "#", "[", "]", "x", Backtick, "-"}
ShortLines == StringsUpTo(ShortAlphabet, MaxShort)
ShortDocs ==
    {<<l>> : l \in ShortLines}
    \cup {<< <<"|", " ", "a", " ", "|">>, l >> : l \in ShortLines}

BlockDocs ==
    BaseDocs \cup ClosedFenceDocs \cup OpenFenceDocs \cup TableDocs
    \cup {<<l>> : l \in HeadingLines \cup TaskLines} \cup ShortDocs
    \cup GreedyDocs \cup IndentedFenceDocs \cup PriorityDocs
    \cup QuoteDocs \cup BacktickDocs \cup EmptyHeaderDocs

\* the documents with every line newline-terminated, and the freely drawn
\* ones also without the final newline
BlockTexts ==
    {Unsplit(d) : d \in BlockDocs} \cup {Join(d, NL) : d \in BaseDocs}

InlineIdle ==
    /\ text = <<>>
    /\ i = 0
    /\ inlines = <<>>
    /\ pc = "idle"

InitBlock ==
    /\ markdown \in BlockTexts
    /\ lines = <<>>
    /\ li = 0
    /\ blocks = <<>>
    /\ err = "unset"
    /\ bpc = "start"
    /\ spans = <<>>
    /\ InlineIdle
    /\ TokenIdle
    /\ PreviewIdle

\* lines := splitLines(markdown); i := 0
SplitStep ==
    /\ bpc = "start"
    /\ lines' = splitLines(markdown)
    /\ li' = 0
    /\ bpc' = "loop"
    /\ UNCHANGED <<markdown, blocks, err, spans,
                   inlineVars, tokenVars, previewVars>>

\* the outer loop is at line li and its body takes the given branch
AtLine(branch) ==
    /\ bpc = "loop"
    /\ li < Len(lines)
    /\ BlockBranch(lines, li) = branch

\* new blocks are put in front of the blocks emitted so far
appendBlocks_InFront(seq, out) == out \o seq

\* blocks = append(blocks, ...)
appendBlocks(seq, out) == seq \o out

\* the effect of one iteration of the outer loop on i and blocks; spans
\* records, for every block appended, the first and last line the iteration
\* that emitted it consumed
Consume(r) ==
    IF BlockIterPanics(lines, li)
    THEN /\ bpc' = "panic"
         /\ UNCHANGED <<markdown, lines, li, blocks, err, spans,
                        inlineVars, tokenVars, previewVars>>
    ELSE /\ li' = r.pos
         /\ blocks' = appendBlocks(blocks, r.out)
         /\ spans' = appendBlocks(spans,
                         [k \in 1..Len(r.out) |->
                             [from |-> li, to |-> r.pos - 1]])
         /\ UNCHANGED <<markdown, lines, err, bpc,
                        inlineVars, tokenVars, previewVars>>

FenceRun ==
    /\ AtLine("fence")
    /\ Consume(FenceIter(lines, li))

QuoteRun ==
    /\ AtLine("quote")
    /\ Consume(QuoteIter(lines, li))

TableRun ==
    /\ AtLine("table")
    /\ Consume(TableIter(lines, li))

LineStep ==
    /\ AtLine("line")
    /\ Consume(LineIter(lines, li))

\* the loop condition fails: return blocks, nil
BlockReturn ==
    /\ bpc = "loop"
    /\ li >= Len(lines)
    /\ err' = "nil"
    /\ bpc' = "done"
    /\ UNCHANGED <<markdown, lines, li, blocks, spans,
                   inlineVars, tokenVars, previewVars>>

NextBlock ==
    \/ SplitStep
    \/ FenceRun
    \/ QuoteRun
    \/ TableRun
    \/ LineStep
    \/ BlockReturn

SpecBlock == InitBlock /\ [][NextBlock]_vars

----------------------------------------------------------------------------
(* The syntax tokenizer HighlightMarkdown *)

TokenTypeText == 0
TokenTypeHeading == 1
TokenTypeBold == 2
TokenTypeItalic == 3
TokenTypeCodeInline == 4
TokenTypeCodeBlock == 5
TokenTypeList == 6
TokenTypeLink == 7
TokenTypeQuote == 8

SyntaxToken(type, startPos, endPos, txt) ==
    [Type |-> type, StartPos |-> startPos, EndPos |-> endPos, Text |-> txt]

\* strings.Split(txt, "\n"): the empty text gives one empty line
RECURSIVE stringsSplit(_)
stringsSplit(txt) ==
    LET nl == findNextByte(txt, 0, NL[1])
    IN  IF nl = -1 THEN <<txt>>
        ELSE <<Slice(txt, 0, nl)>> \o stringsSplit(From(txt, nl + 1))

\* strings.Index(s, sub)
stringsIndex(s, sub) == findNextStr(s, 0, sub)

\* strings.TrimLeft(s, cutset)
RECURSIVE stringsTrimLeft(_, _)
stringsTrimLeft(s, cutset) ==
    IF Len(s) > 0 /\ Head(s) \in cutset THEN stringsTrimLeft(Tail(s), cutset)
    ELSE s

findClosing(txt, start, marker) ==
    LET hits == {k \in start..(Len(txt) - 1) :
                    /\ k + Len(marker) <= Len(txt)
                    /\ Slice(txt, k, k + Len(marker)) = marker
                    /\ k > start}
    IN  IF hits = {} THEN -1 ELSE Min(hits)

\* findLink: ok is "the result is not nil"
findLink(txt, start) ==
    LET NoMatch == [ok |-> FALSE, text |-> <<>>, url |-> <<>>, end |-> 0] IN
    IF start + 1 >= Len(txt) \/ At(txt, start) # "[" THEN NoMatch
    ELSE
    LET endBracket == stringsIndex(From(txt, start), <<"]">>) IN
    IF endBracket = -1 THEN NoMatch
    ELSE
    LET linkText == Slice(txt, start + 1, start + endBracket)
        afterBracket == start + endBracket + 1
    IN
    IF afterBracket >= Len(txt) \/ At(txt, afterBracket) # "(" THEN NoMatch
    ELSE
    LET endParen == stringsIndex(From(txt, afterBracket), <<")">>) IN
    IF endParen = -1 THEN NoMatch
    ELSE [ok |-> TRUE, text |-> linkText,
          url |-> Slice(txt, afterBracket + 1, afterBracket + endParen),
          end |-> afterBracket + endParen + 1]

isHeadingLine(line) == Len(line) > 0 /\ At(line, 0) = "#"

isCodeBlockLine(line) == Len(line) >= 3 /\ Slice(line, 0, 3) \in Fences

isListItemLine(line) ==
    IF Len(line) = 0 THEN FALSE
    ELSE IF (At(line, 0) = "-" \/ At(line, 0) = "*")
            /\ Len(line) > 1 /\ At(line, 1) = " "
    THEN TRUE
    ELSE IF Len(line) >= 2 /\ At(line, 0) \in Digits /\ At(line, 1) = "."
            /\ Len(line) > 2 /\ At(line, 2) = " "
    THEN TRUE
    ELSE FALSE

isQuoteLine(line) == Len(line) > 0 /\ At(line, 0) = ">"

\* the loop of highlightInlineSyntax at byte pos of what is left of the line;
\* startPos keeps the value the function was called with
RECURSIVE inlineSyntaxFrom(_, _, _, _)
inlineSyntaxFrom(line, pos, startPos, toks) ==
    IF pos >= Len(line)
    THEN IF Len(line) > 0
         THEN Append(toks, SyntaxToken(TokenTypeText, startPos,
                                       startPos + Len(line), line))
         ELSE toks
    ELSE
    LET textBefore ==
            IF pos > startPos
            THEN <<SyntaxToken(TokenTypeText, startPos + pos, startPos + pos,
                               Slice(line, 0, pos))>>
            ELSE <<>>
        span(type, width, endPos) ==
            SyntaxToken(type, startPos + pos, startPos + endPos,
                        Slice(line, pos + width, endPos))
        boldEnd ==
            IF pos + 2 < Len(line) /\ Slice(line, pos, pos + 2) = <<"*", "*">>
            THEN findClosing(line, pos + 2, <<"*", "*">>) ELSE -1
        italicEnd ==
            IF pos + 1 < Len(line) /\ Slice(line, pos, pos + 1) = <<"*">>
            THEN findClosing(line, pos + 1, <<"*">>) ELSE -1
        codeEnd ==
            IF pos + 1 < Len(line) /\ Slice(line, pos, pos + 1) = <<Backtick>>
            THEN findClosing(line, pos + 1, <<Backtick>>) ELSE -1
        linkMatch == findLink(line, pos)
    IN
    IF boldEnd # -1
    THEN inlineSyntaxFrom(From(line, boldEnd + 2), 0, startPos,
             toks \o textBefore \o <<span(TokenTypeBold, 2, boldEnd)>>)
    ELSE IF italicEnd # -1 /\ (pos = 0 \/ At(line, pos - 1) # "*")
    THEN inlineSyntaxFrom(From(line, italicEnd + 1), 0, startPos,
             toks \o textBefore \o <<span(TokenTypeItalic, 1, italicEnd)>>)
    ELSE IF codeEnd # -1
    THEN inlineSyntaxFrom(From(line, codeEnd + 1), 0, startPos,
             toks \o textBefore \o <<span(TokenTypeCodeInline, 1, codeEnd)>>)
    ELSE IF linkMatch.ok
    THEN inlineSyntaxFrom(From(line, linkMatch.end), 0, startPos,
             toks \o textBefore
                  \o <<SyntaxToken(TokenTypeLink, startPos + pos,
                                   startPos + linkMatch.end, linkMatch.text)>>)
    ELSE inlineSyntaxFrom(line, pos + 1, startPos, toks)

highlightInlineSyntax(line, startPos) ==
    inlineSyntaxFrom(line, 0, startPos, <<>>)

\* the test of highlightLine that decides the token(s) of a line
LineKind(line) ==
    IF isHeadingLine(line) THEN "heading"
    ELSE IF isCodeBlockLine(line) THEN "codeblock"
    ELSE IF isListItemLine(line) THEN "list"
    ELSE IF isQuoteLine(line) THEN "quote"
    ELSE "inline"

highlightLine(line, startPos) ==
    LET kind == LineKind(line)
        whole(type, txt) ==
            <<SyntaxToken(type, startPos, startPos + Len(line), txt)>>
    IN  CASE kind = "heading" ->
                whole(TokenTypeHeading, stringsTrimLeft(line, {"#", " "}))
          [] kind = "codeblock" -> whole(TokenTypeCodeBlock, line)
          [] kind = "list" -> whole(TokenTypeList, line)
          [] kind = "quote" ->
                whole(TokenTypeQuote, stringsTrimLeft(line, {">", " "}))
          [] OTHER -> highlightInlineSyntax(line, startPos)

----------------------------------------------------------------------------
(* The tokenizer as a state machine: hpc is "start" at the call, "loop"    *)
(* inside the loop over the lines, "done" after the return.                *)

HighlightAlphabet == {"*", Backtick, "a", NL[1]}
HighlightLines ==
    {<<>>, <<"a">>, <<"#", " ", "a">>, <<"-", " ", "a">>, <<">", " ", "a">>,
     <<Backtick, Backtick, Backtick, "g", "o">>,
     <<"*", "*", "a", "*", "*">>, <<"*", "a", "*">>,
     <<"[", "a", "]", "(", "b", ")">>, <<"a", "[", "a", "]", "(", "b", ")">>,
     <<"*", "a", "*", " ", "*", "b", "*">>}
HighlightTexts ==
    StringsUpTo(HighlightAlphabet, MaxHighlight)
    \cup {Join(d, NL) : d \in StringsUpTo(HighlightLines, MaxHighlightLines)}

IdleButTokens ==
    /\ InlineIdle
    /\ BlockIdle
    /\ PreviewIdle

InitHighlight ==
    /\ hlText \in HighlightTexts
    /\ hlLines = <<>>
    /\ hlIndex = 0
    /\ currentPos = 0
    /\ tokens = <<>>
    /\ hpc = "start"
    /\ IdleButTokens

\* lines := strings.Split(text, "\n"); currentPos := 0
HighlightSplit ==
    /\ hpc = "start"
    /\ hlLines' = stringsSplit(hlText)
    /\ hlIndex' = 0
    /\ currentPos' = 0
    /\ hpc' = "loop"
    /\ UNCHANGED <<hlText, tokens, inlineVars, blockVars, previewVars>>

\* the loop over the lines is at a line of the given kind
AtTokenLine(kind) ==
    /\ hpc = "loop"
    /\ hlIndex < Len(hlLines)
    /\ LineKind(At(hlLines, hlIndex)) = kind

\* one iteration of the loop over the lines
AppendLineTokens ==
    /\ tokens' = tokens \o highlightLine(At(hlLines, hlIndex), currentPos)
    /\ currentPos' = currentPos + Len(At(hlLines, hlIndex)) + 1
    /\ hlIndex' = hlIndex + 1
    /\ UNCHANGED <<hlText, hlLines, hpc, inlineVars, blockVars, previewVars>>

HeadingLineStep ==
    /\ AtTokenLine("heading")
    /\ AppendLineTokens

CodeBlockLineStep ==
    /\ AtTokenLine("codeblock")
    /\ AppendLineTokens

ListLineStep ==
    /\ AtTokenLine("list")
    /\ AppendLineTokens

QuoteLineStep ==
    /\ AtTokenLine("quote")
    /\ AppendLineTokens

InlineLineStep ==
    /\ AtTokenLine("inline")
    /\ AppendLineTokens

\* the range loop is over: return tokens
HighlightReturn ==
    /\ hpc = "loop"
    /\ hlIndex >= Len(hlLines)
    /\ hpc' = "done"
    /\ UNCHANGED <<hlText, hlLines, hlIndex, currentPos, tokens,
                   inlineVars, blockVars, previewVars>>

NextHighlight ==
    \/ HighlightSplit
    \/ HeadingLineStep
    \/ CodeBlockLineStep
    \/ ListLineStep
    \/ QuoteLineStep
    \/ InlineLineStep
    \/ HighlightReturn

SpecHighlight == InitHighlight /\ [][NextHighlight]_vars

----------------------------------------------------------------------------
(* MarkdownToHTML and the preview handler of the user interface.  The      *)
(* converter is an external library: a call of Convert writes some bytes   *)
(* to the buffer and returns nil or an error, both chosen freely.          *)

\* the message updatePreview builds from the error
PreviewFailed == <<"preview failed">>

\* the error is returned together with what the converter wrote so far
MarkdownToHTML_PartialOutput(md, written, convertErr) ==
    IF md = <<>> THEN [html |-> <<>>, err |-> "nil", converted |-> FALSE]
    ELSE [html |-> written, err |-> convertErr, converted |-> TRUE]

\* MarkdownToHTML on input md when Convert, if called, writes `written` to
\* the buffer and returns convertErr; converted is "Convert was called"
MarkdownToHTML(md, written, convertErr) ==
    IF md = <<>> THEN [html |-> <<>>, err |-> "nil", converted |-> FALSE]
    ELSE IF convertErr # "nil"
    THEN [html |-> <<>>, err |-> "error", converted |-> TRUE]
    ELSE [html |-> written, err |-> "nil", converted |-> TRUE]

\* texts of the editor, and what the converter may have written
Contents == StringsUpTo({"a", "#"}, MaxContent)
Written == StringsUpTo({"<p>", "a"}, MaxWritten)

InitPreview ==
    /\ contentInput = <<>>
    /\ previewMode = FALSE
    /\ renderedHTML = <<>>
    /\ errorMsg = <<>>
    /\ html = <<>>
    /\ previewErr = "nil"
    /\ converterCalled = FALSE
    /\ upc = "ui"
    /\ InlineIdle
    /\ BlockIdle
    /\ TokenIdle

\* the user edits the text of the content editor
EditContent ==
    /\ upc = "ui"
    /\ contentInput' \in Contents \ {contentInput}
    /\ UNCHANGED <<previewMode, renderedHTML, errorMsg, html, previewErr,
                   converterCalled, upc, inlineVars, blockVars, tokenVars>>

\* the toggle button leaves preview mode: updatePreview is not called
PreviewOff ==
    /\ upc = "ui"
    /\ previewMode
    /\ previewMode' = FALSE
    /\ UNCHANGED <<contentInput, renderedHTML, errorMsg, html, previewErr,
                   converterCalled, upc, inlineVars, blockVars, tokenVars>>

\* the toggle button enters preview mode and calls updatePreview, whose
\* call of MarkdownToHTML returns r
updatePreview(r) ==
    /\ upc = "ui"
    /\ ~previewMode
    /\ previewMode' = TRUE
    /\ html' = r.html
    /\ previewErr' = r.err
    /\ converterCalled' = r.converted
    /\ IF r.err # "nil"
       THEN /\ errorMsg' = PreviewFailed
            /\ UNCHANGED renderedHTML
       ELSE /\ renderedHTML' = r.html
            /\ UNCHANGED errorMsg
    /\ UNCHANGED <<contentInput, upc, inlineVars, blockVars, tokenVars>>

\* the editor is empty: MarkdownToHTML returns at once
PreviewEmpty ==
    /\ contentInput = <<>>
    /\ updatePreview(MarkdownToHTML(contentInput, <<>>, "nil"))

\* the converter succeeds
PreviewConverted ==
    /\ contentInput # <<>>
    /\ \E written \in Written :
          updatePreview(MarkdownToHTML(contentInput, written, "nil"))

\* the converter fails after writing some bytes
PreviewFails ==
    /\ contentInput # <<>>
    /\ \E written \in Written :
          updatePreview(MarkdownToHTML(contentInput, written, "error"))

NextPreview ==
    \/ EditContent
    \/ PreviewOff
    \/ PreviewEmpty
    \/ PreviewConverted
    \/ PreviewFails

SpecPreview == InitPreview /\ [][NextPreview]_vars

----------------------------------------------------------------------------
(* The whole model: a run is one call of ParseInlines, of                  *)
(* ParseMarkdownBlock or of HighlightMarkdown, or a session of the user    *)
(* interface                                                               *)

Init == InitInline \/ InitBlock \/ InitHighlight \/ InitPreview

Next == NextInline \/ NextBlock \/ NextHighlight \/ NextPreview

Spec == Init /\ [][Next]_vars

----------------------------------------------------------------------------
(* Claims about ParseMarkdownBlock *)

CodeBlock(content) == MarkdownBlock(BlockTypeCode, content, 0, Nil, Nil)
ParagraphBlock(content) == MarkdownBlock(BlockTypeParagraph, content, 0, Nil, Nil)

IsSuffix(t, s) == Len(t) <= Len(s) /\ SubSeq(s, Len(s) - Len(t) + 1, Len(s)) = t

\* C2: every iteration of the outer loop moves the line cursor forward by at
\* least one line and never past the number of lines, and the pass ends
\* exactly when the cursor equals the number of lines.
C2_CursorAdvances ==
    /\ li <= Len(lines)
    /\ (bpc = "loop" /\ li < Len(lines)) =>
          /\ BlockIter(lines, li).pos > li
          /\ BlockIter(lines, li).pos <= Len(lines)
    /\ bpc = "done" => li = Len(lines)

C2_Witness ==
    /\ bpc = "done"
    /\ Len(lines) = 4
    /\ li = 4
    /\ Len(blocks) = 1
    /\ blocks[1].Type = BlockTypeTable

\* C3: no block is emitted for a zero-length line at which the outer loop
\* stands, no emitted block has kind Empty, and there are at most as many
\* blocks as non-blank lines consumed.
C3_NoEmptyBlocks ==
    /\ \A b \in 1..Len(blocks) : blocks[b].Type # BlockTypeEmpty
    /\ Len(blocks) <= Cardinality({k \in 1..li : lines[k] # <<>>})
    /\ (bpc = "loop" /\ li < Len(lines) /\ At(lines, li) = <<>>) =>
          BlockIter(lines, li).out = <<>>

C3_Witness ==
    /\ bpc = "done"
    /\ lines = << <<>>, <<"a">> >>
    /\ blocks = <<ParagraphBlock(<<"a">>)>>

\* C4: a line of n leading '#' gives a Heading of level n when n <= 6 and of
\* level 6 when n >= 7, whose content then begins with the 7th '#'.
C4_HeadingLevel ==
    bpc = "done" =>
        \A n \in 1..MaxHashes, t \in HeadingTails :
            lines = <<Hashes(n) \o t>> =>
                /\ Len(blocks) = 1
                /\ blocks[1].Type = BlockTypeHeading
                /\ blocks[1].Level = (IF n <= 6 THEN n ELSE 6)
                /\ n >= 7 => blocks[1].Content = From(Hashes(n) \o t, 6)

\* C5: an opening fence with tag L, n >= 1 lines that are no closing fence
\* and a closing fence give exactly one CodeFence block, whose content is L,
\* a newline and the n lines joined by newline (the joined lines alone when
\* L is empty); the closing fence gives no block of its own.
C5_FenceContent ==
    bpc = "done" =>
        \A ind \in FenceIndents, f \in Fences, tag \in FenceTags,
           body \in FenceBodies \ {<<>>}, close \in FenceCloses,
           post \in AroundFence :
            lines = <<ind \o f \o tag>> \o body \o <<close>> \o post =>
                blocks =
                    <<CodeBlock(IF tag = <<>> THEN Join(body, NL)
                                ELSE tag \o NL \o Join(body, NL))>>
                    \o [k \in 1..Len(post) |-> ParagraphBlock(post[k])]

\* C6: an opening fence that no closing fence follows gives exactly one
\* CodeFence block, the last block, that contains every remaining line, and
\* the returned error is nil.
C6_UnterminatedFence ==
    bpc = "done" =>
        \A pre \in AroundFence, open \in FenceOpens, body \in FenceBodies :
            lines = pre \o <<open>> \o body =>
                /\ Len(blocks) = Len(pre) + 1
                /\ \A b \in 1..Len(pre) : blocks[b].Type # BlockTypeCode
                /\ blocks[Len(blocks)].Type = BlockTypeCode
                /\ IsSuffix(Join(body, NL), blocks[Len(blocks)].Content)
                /\ body = <<>> => blocks[Len(blocks)].Content = <<>>
                /\ err = "nil"

C6_Witness ==
    /\ bpc = "done"
    /\ lines = << <<"a">>, <<"~", "~", "~", "g", "o">>,
                  <<Backtick, Backtick, Backtick, "g", "o">>, <<"#", " ", "a">> >>
    /\ Len(blocks) = 2
    /\ blocks[2].Type = BlockTypeCode

TrimCells(cells) == [k \in 1..Len(cells) |-> TrimSpace(cells[k])]

\* C7: a header row, a separator row and k data rows, each written as
\* pipe-delimited cells between a leading and a trailing pipe, give one Table
\* block whose headers are the trimmed header cells and whose rows are the
\* data rows' trimmed cells (stated for rows whose first cell is not empty).
C7_TableCells ==
    bpc = "done" =>
        \A h \in CellLists, sep \in SeparatorRows,
           d \in StringsUpTo(DataCellLists, MaxRows) :
            (/\ h[1] # <<>>
             /\ lines = <<TableRow(h), sep>>
                          \o [r \in 1..Len(d) |-> TableRow(d[r])]) =>
                blocks =
                    <<MarkdownBlock(BlockTypeTable, <<>>, 0,
                          Ref(TableData(TrimCells(h),
                                        [r \in 1..Len(d) |-> TrimCells(d[r])])),
                          Nil)>>

\* the closing bracket of a task line: byte 1 when it is ']', otherwise the
\* first ']' from byte 2 on
C8_Closing(l) ==
    IF At(l, 1) = "]" THEN 1
    ELSE LET found == {k \in 2..(Len(l) - 1) : At(l, k) = "]"}
         IN  IF found = {} THEN -1 ELSE Min(found)

C8_IsTaskLine(l) ==
    /\ Len(l) >= 4
    /\ At(l, 0) = "["
    /\ At(l, 1) \in {" ", "x", "X", "]"}
    /\ C8_Closing(l) # -1
    /\ (C8_Closing(l) + 1 = Len(l) \/ At(l, C8_Closing(l) + 1) = " ")

C8_Expected(l) ==
    MarkdownBlock(BlockTypeTaskList, <<>>, 0, Nil,
        Ref(TaskListData(At(l, 1) \in {"x", "X"},
                         TrimSpace(From(l, C8_Closing(l) + 1)))))

\* C8 as stated: every task line gives a TaskItem block with checked exactly
\* when byte 1 is 'x' or 'X' and content the trimmed text after the closing
\* bracket.
C8_TaskItem ==
    (bpc = "done" /\ Len(lines) = 1 /\ C8_IsTaskLine(lines[1])) =>
        blocks = <<C8_Expected(lines[1])>>

\* C8 as amended: the same for every task line that is not a table row, that
\* is, whose trimmed text does not contain " | ".
C8_TaskItemNotTableRow ==
    (/\ bpc = "done"
     /\ Len(lines) = 1
     /\ C8_IsTaskLine(lines[1])
     /\ ~Contains(TrimSpace(lines[1]), <<" ", "|", " ">>)) =>
        blocks = <<C8_Expected(lines[1])>>

C8_Witness ==
    /\ bpc = "done"
    /\ lines = << <<"[", "]", " ", "a", "|">> >>
    /\ blocks = <<MarkdownBlock(BlockTypeTaskList, <<>>, 0, Nil,
                      Ref(TaskListData(FALSE, <<"a", "|">>)))>>

----------------------------------------------------------------------------
(* Claims about ParseInlines *)

Plain(x) == InlineElement(InlineTypeText, x, <<>>)

\* C1: every iteration of the scan loop strictly advances the cursor (and
\* returns), whatever byte stands at the cursor, so ParseInlines terminates.
C1_ScanAdvances ==
    (pc = "scan" /\ i < Len(text)) =>
        (ScanIter(text, i).pos > i /\ ~ScanIter(text, i).hang)

\* C9: "***x***" and "___x___" give exactly one bold+italic element with
\* text x, "**x**" and "__x__" exactly one Bold element with text x, for
\* every non-empty marker-free x.
C9_EmphasisPrecedence ==
    pc = "done" =>
        \A x \in PlainTexts :
            /\ text \in {<<"*", "*", "*">> \o x \o <<"*", "*", "*">>,
                         <<"_", "_", "_">> \o x \o <<"_", "_", "_">>}
                  => inlines = <<InlineElement(InlineTypeBoldItalic, x, <<>>)>>
            /\ text \in {<<"*", "*">> \o x \o <<"*", "*">>,
                         <<"_", "_">> \o x \o <<"_", "_">>}
                  => inlines = <<InlineElement(InlineTypeBold, x, <<>>)>>

C9_Witness ==
    /\ pc = "done"
    /\ text = <<"_", "_", "_", "a", ".", "_", "_", "_">>
    /\ inlines = <<InlineElement(InlineTypeBoldItalic, <<"a", ".">>, <<>>)>>

\* C10: an opening marker with no matching closer later in the text is kept
\* in the output as plain text: marker m followed by marker-free x parses to
\* the single Text element m x.
C10_UnmatchedKept ==
    pc = "done" =>
        \A m \in EmphasisMarkers, x \in PlainTexts :
            text = m \o x => inlines = <<Plain(m \o x)>>

\* C11: a link "[t](u)" whose url u holds balanced, nested parentheses
\* parses to one Link element with text t and url u, the url ending at the
\* ')' that balances the '(' after ']'; the scan resumes right after that
\* ')', so what follows the link is parsed on its own.
C11_NestedParenUrl ==
    pc = "done" =>
        \A t \in LinkLabels, u \in BalancedUrls, tail \in LinkTails :
            text = LinkText(t, u, tail) =>
                inlines = <<InlineElement(InlineTypeLink, t, u)>>
                            \o (IF tail = <<>> THEN <<>> ELSE <<Plain(tail)>>)

C11_Witness ==
    /\ pc = "done"
    /\ text = LinkText(<<"x">>, <<"a", "(", "a", ")">>, <<")">>)
    /\ inlines = <<InlineElement(InlineTypeLink, <<"x">>,
                                 <<"a", "(", "a", ")">>),
                   Plain(<<")">>)>>

\* the Text fields of a sequence of elements, concatenated in order
RECURSIVE ConcatText(_)
ConcatText(es) ==
    IF es = <<>> THEN <<>> ELSE Head(es).Text \o ConcatText(Tail(es))

\* C12: the Text fields of the returned elements, concatenated in order, are
\* the content with only the delimiter bytes of matched spans removed: when
\* no span matched (every element is Text) the concatenation is the content
\* itself, and for a payload x wrapped in a marker it is x.
C12_RoundTrip ==
    pc = "done" =>
        /\ (\A k \in 1..Len(inlines) : inlines[k].Type = InlineTypeText)
              => ConcatText(inlines) = text
        /\ \A m \in EmphasisMarkers, x \in PlainTexts :
              text = m \o x \o m => ConcatText(inlines) = x

Italic(x) == InlineElement(InlineTypeItalic, x, <<>>)

\* C26: in a span "*...*" or "_..._", sentence punctuation (. , ! ? : ;)
\* right before the closer is left out of the Italic text and emitted as a
\* Text element following the Italic one, so no such byte is lost: marker,
\* "a", one punctuation byte p, marker parses to Italic "a" then Text p.
C26_PunctuationKept ==
    pc = "done" =>
        \A m \in {<<"*">>, <<"_">>}, p \in Punctuation :
            text = m \o <<"a", p>> \o m =>
                inlines = <<Italic(<<"a">>), Plain(<<p>>)>>

\* C27: the closer of a single-marker emphasis span is consumed and never
\* opens the next span: two spans of one marker with a gap g between them
\* parse to Italic, Text g, Italic ("*x* y *z*").
C27_CloserConsumed ==
    pc = "done" =>
        \A m \in {<<"*">>, <<"_">>}, g \in SpanGaps :
            text = m \o <<"a">> \o m \o g \o m \o <<"a">> \o m =>
                inlines = <<Italic(<<"a">>), Plain(g), Italic(<<"a">>)>>

\* texts x b y with b a '[' or '!' that starts no link or image
BareBracketTexts ==
    {x \o <<b>> \o y : x \in StringsUpTo({"a", "."}, 1),
                       b \in {"[", "!"},
                       y \in StringsUpTo({"a", "."}, 1)}

\* C28: a '[' or '!' that starts no valid link or image is ordinary text:
\* every output element is Text and their texts, concatenated, are the input
\* with that byte in place ("Hello!" keeps its '!').
C28_BareBracketKept ==
    pc = "done" =>
        (text \in BareBracketTexts =>
            /\ \A k \in 1..Len(inlines) : inlines[k].Type = InlineTypeText
            /\ ConcatText(inlines) = text)

\* C29: the ']' that closes a link text is the first unescaped one: a ']'
\* preceded by a backslash does not end the text, so "[a\]a](a)" is one Link
\* with url "a" whose text runs to the second ']' (with or without the
\* backslash kept).
C29_EscapedBracket ==
    pc = "done" =>
        (text \in EscapedLinkTexts =>
            /\ Len(inlines) = 1
            /\ inlines[1].Type = InlineTypeLink
            /\ inlines[1].URL = <<"a">>
            /\ inlines[1].Text \in {EscapedLabel, <<"a", "]", "a">>})

\* some 3 bytes of txt are one emphasis marker three times
HasTripleDelimiter(txt) ==
    \E k \in 0..(Len(txt) - 3) :
        Slice(txt, k, k + 3) \in {<<"*", "*", "*">>, <<"_", "_", "_">>}

\* C30: the combined bold+italic kind is produced in exactly two ways: by a
\* matched 3-byte delimiter ("***a***", "___a___") and by an emphasis span
\* nested in a strong span ("**_a_**", "__*a*__"), whose element is returned
\* with the combined kind; no other input gives an element of that kind.
C30_CombinedKind ==
    pc = "done" =>
        /\ text \in TripleTexts \cup NestedEmphasisTexts =>
              inlines = <<InlineElement(InlineTypeBoldItalic, <<"a">>, <<>>)>>
        /\ (\E k \in 1..Len(inlines) :
                inlines[k].Type = InlineTypeBoldItalic)
              => (HasTripleDelimiter(text) \/ text \in NestedEmphasisTexts)

----------------------------------------------------------------------------
(* More claims about ParseMarkdownBlock *)

\* C14: the block parser is total: no iteration of the outer loop reads an
\* index or slice out of range (no panic), whatever the line -- leading
\* white space, 1 to 3 bytes, only '|' -- and the call returns a nil error.
C14_BlockParserTotal ==
    /\ bpc # "panic"
    /\ (bpc = "loop" /\ li < Len(lines)) => ~BlockIterPanics(lines, li)
    /\ bpc = "done" => err = "nil"

C14_Witness ==
    /\ bpc = "done"
    /\ err = "nil"
    /\ lines = << <<"|", " ", "a", " ", "|">>, <<" ", "|", "|">> >>
    /\ li = 2

\* C18: blocks preserve source order: the line ranges consumed for the
\* emitted blocks lie inside the input, are pairwise disjoint and strictly
\* increasing in output order, and the cursor is past every one of them, so
\* no line contributes to two blocks.
C18_SourceOrder ==
    /\ Len(spans) = Len(blocks)
    /\ \A k \in 1..Len(spans) :
          /\ 0 <= spans[k].from
          /\ spans[k].from <= spans[k].to
          /\ spans[k].to < Len(lines)
          /\ spans[k].to < li
    /\ \A j, k \in 1..Len(spans) : j < k => spans[j].to < spans[k].from

C18_Witness ==
    /\ bpc = "done"
    /\ lines = << <<Backtick, Backtick, Backtick>>, <<"a">>,
                  <<Backtick, Backtick, Backtick>>, <<"a">> >>
    /\ spans = <<[from |-> 0, to |-> 2], [from |-> 3, to |-> 3]>>
    /\ blocks = <<CodeBlock(<<"a">>), ParagraphBlock(<<"a">>)>>

\* C19: fence consumption is greedy: after an opening fence every line up
\* to the next closing fence, or to the end of input, is buffered verbatim
\* into the one CodeFence block, whatever the line looks like, and no other
\* block is emitted for any of those lines.
C19_GreedyFence ==
    (bpc = "done" /\ lines \in GreedyDocs) =>
        LET closed == lines[Len(lines)] \in Fences
            body == SubSeq(lines, 2, IF closed THEN Len(lines) - 1
                                     ELSE Len(lines))
        IN  /\ Len(blocks) = 1
            /\ blocks[1].Type = BlockTypeCode
            /\ IsSuffix(Join(body, NL), blocks[1].Content)
            /\ spans = <<[from |-> 0, to |-> Len(lines) - 1]>>

C19_Witness ==
    /\ bpc = "done"
    /\ lines = << <<Backtick, Backtick, Backtick>>, <<>>, <<"#", " ", "a">>,
                  <<Backtick, Backtick, Backtick>> >>
    /\ blocks = <<CodeBlock(NL \o <<"#", " ", "a">>)>>

IsPrefix(t, s) == Len(t) <= Len(s) /\ SubSeq(s, 1, Len(t)) = t

\* C20: an opening fence with language tag L followed by no buffered line
\* (the closing fence is the next line, or the input ends) still gives a
\* CodeFence block whose content starts with L and a newline.
C20_TagKeptWithoutLines ==
    bpc = "done" =>
        \A f \in Fences, tag \in FenceTags \ {<<>>} :
            lines \in {<<f \o tag>>, <<f \o tag, f>>} =>
                /\ Len(blocks) = 1
                /\ blocks[1].Type = BlockTypeCode
                /\ IsPrefix(tag \o NL, blocks[1].Content)

\* C17: every emitted block satisfies the payload invariant: TableData is
\* present exactly for a Table block, TaskData exactly for a TaskItem block,
\* Level is non-zero only for a Heading, and Inlines is empty for CodeFence,
\* HorizontalRule and Table blocks.
C17_PayloadInvariant ==
    \A k \in 1..Len(blocks) :
        LET b == blocks[k] IN
        /\ b.TableData # Nil <=> b.Type = BlockTypeTable
        /\ b.TaskData # Nil <=> b.Type = BlockTypeTaskList
        /\ b.Level # 0 => b.Type = BlockTypeHeading
        /\ b.Type \in {BlockTypeCode, BlockTypeHorizontalRule, BlockTypeTable}
              => b.Inlines = <<>>

C17_Witness ==
    /\ bpc = "done"
    /\ lines = << <<"|", " ", "a", " ", "|">>, <<"[", "x", "]", " ", "a">> >>
    /\ Len(blocks) = 2
    /\ blocks[1].Type = BlockTypeTable
    /\ blocks[1].TableData = Ref(TableData(<< <<"a">> >>, <<>>))
    /\ blocks[2].Type = BlockTypeTaskList
    /\ blocks[2].TaskData = Ref(TaskListData(TRUE, <<"a">>))

\* C21: the language tag of an opening fence is taken from the
\* whitespace-trimmed line: the tag of a line with leading spaces is the tag
\* of the same line without them and holds no fence marker byte, and the
\* CodeFence block of an indented opening fence has the content of the
\* unindented one.
C21_TagFromTrimmedLine ==
    /\ (bpc = "loop" /\ li < Len(lines) /\ BlockBranch(lines, li) = "fence")
          => LET lang == fenceLang(At(lines, li)) IN
             /\ lang = fenceLang(TrimSpace(At(lines, li)))
             /\ \A k \in 1..Len(lang) : lang[k] \notin {Backtick, "~"}
    /\ bpc = "done" =>
          \A n \in 0..MaxIndent, f \in Fences, tag \in FenceTags :
             (Len(lines) >= 2 /\ lines[1] = Spaces(n) \o f \o tag
              /\ lines \in IndentedFenceDocs)
                => blocks = <<CodeBlock(IF tag = <<>> THEN <<"a">>
                                        ELSE tag \o NL \o <<"a">>)>>

\* the kind of the first classifier that matches the line, in the order
\* fence, quote, table row, heading, list item, task item, horizontal rule
C22_FirstMatch(line) ==
    IF isCodeBlock(line) THEN BlockTypeCode
    ELSE IF isQuote(line) THEN BlockTypeQuote
    ELSE IF isTableLine(line) THEN BlockTypeTable
    ELSE IF isHeading(line) THEN BlockTypeHeading
    ELSE IF isListItem(line) THEN BlockTypeList
    ELSE IF isTaskItem(line) THEN BlockTypeTaskList
    ELSE IF isHorizontalRule(line) THEN BlockTypeHorizontalRule
    ELSE BlockTypeParagraph

\* C22: at every non-empty line the cursor stands on, the block the
\* iteration emits has the kind of the first matching classifier in the
\* order fence, quote, table row, heading, list item, task item, horizontal
\* rule, paragraph (only a table run may emit no block); "- - -" and
\* "* * *" give a ListItem and "# a | b" a Table.
C22_ClassifierPriority ==
    (bpc = "loop" /\ li < Len(lines) /\ At(lines, li) # <<>>) =>
        LET line == At(lines, li)
            out == BlockIter(lines, li).out
        IN  /\ \A k \in 1..Len(out) : out[k].Type = C22_FirstMatch(line)
            /\ C22_FirstMatch(line) # BlockTypeTable => Len(out) = 1
            /\ line \in {<<"-", " ", "-", " ", "-">>,
                          <<"*", " ", "*", " ", "*">>}
                  => out = <<MarkdownBlock(BlockTypeList, line, 0, Nil, Nil)>>
            /\ line = <<"#", " ", "a", " ", "|", " ", "b">>
                  => /\ Len(out) = 1
                     /\ out[1].Type = BlockTypeTable

C22_Witness ==
    /\ bpc = "done"
    /\ lines = << <<"#", " ", "a", " ", "|", " ", "b">> >>
    /\ blocks = <<MarkdownBlock(BlockTypeTable, <<>>, 0,
                      Ref(TableData(<< <<"#", " ", "a">>, <<"b">> >>, <<>>)),
                      Nil)>>

\* the number of leading lines of ls that start with ">"
C23_RunLength(ls) ==
    Cardinality({k \in 1..Len(ls) :
                    \A j \in 1..k : ls[j] # <<>> /\ ls[j][1] = ">"})

\* a quote line without its ">" and without one space after it, if any
C23_Stripped(l) ==
    IF Len(l) >= 2 /\ l[2] = " " THEN SubSeq(l, 3, Len(l))
    ELSE SubSeq(l, 2, Len(l))

\* C23: a maximal run of k >= 1 lines starting with ">" gives exactly one
\* Quote block whose content is the k lines, each without its ">" and at
\* most one following space, joined by newline; the run ends at the first
\* line not starting with ">", which is classified on its own.
C23_QuoteRun ==
    (bpc = "done" /\ lines \in QuoteDocs) =>
        LET k == C23_RunLength(lines)
            stripped == [q \in 1..k |-> C23_Stripped(lines[q])]
            post == SubSeq(lines, k + 1, Len(lines))
        IN  /\ k >= 1
            /\ blocks =
                  <<MarkdownBlock(BlockTypeQuote, Join(stripped, NL),
                                  0, Nil, Nil)>>
                  \o (IF post = <<>> THEN <<>> ELSE BlockIter(post, 0).out)
            /\ \A b \in 2..Len(blocks) : blocks[b].Type # BlockTypeQuote

C23_Witness ==
    /\ bpc = "done"
    /\ lines = << <<">", " ", " ", "a">>, <<">">>, <<"a">> >>
    /\ blocks = <<MarkdownBlock(BlockTypeQuote, <<" ", "a">> \o NL,
                                0, Nil, Nil),
                  ParagraphBlock(<<"a">>)>>

\* C24: a '|' between an opening backtick and the next backtick of a table
\* row is no column separator: a header row with one backticked cell that
\* holds a '|' splits into as many cells as it was written with, the '|'
\* staying inside its cell.
C24_BacktickPipe ==
    bpc = "done" =>
        \A h \in BacktickCellLists, sep \in SeparatorRows :
            lines = <<TableRow(h), sep>> =>
                /\ Len(blocks) = 1
                /\ blocks[1].Type = BlockTypeTable
                /\ Len(blocks[1].TableData[1].Headers) = Len(h)
                /\ blocks[1].TableData[1].Headers = h

\* C25: every emitted Table block has a non-empty header list; a table run
\* whose first row splits into no cell gives no Table block, and the cursor
\* still moves past every line parseTable consumed (header, separator and
\* data rows), so the next block comes from the line after the run.
C25_NoEmptyHeaderTable ==
    /\ \A b \in 1..Len(blocks) :
          blocks[b].Type = BlockTypeTable
              => Len(blocks[b].TableData[1].Headers) > 0
    /\ (bpc = "loop" /\ li < Len(lines) /\ BlockBranch(lines, li) = "table")
          => LET t == parseTable(lines, li)
                 r == BlockIter(lines, li)
             IN  /\ r.pos = t.end
                 /\ t.end > li
                 /\ Len(t.tableData[1].Headers) = 0 => r.out = <<>>
    /\ (bpc = "done" /\ lines \in EmptyHeaderDocs)
          => LET last == lines[Len(lines)] IN
             IF last = <<"a">>
             THEN /\ blocks = <<ParagraphBlock(last)>>
                  /\ spans = <<[from |-> Len(lines) - 1,
                                to |-> Len(lines) - 1]>>
             ELSE blocks = <<>>

C25_Witness ==
    /\ bpc = "done"
    /\ lines = << <<"|">>, <<"|", ":", "-", "|">>, <<"|", "1", "|">>,
                  <<"a">> >>
    /\ blocks = <<ParagraphBlock(<<"a">>)>>
    /\ spans = <<[from |-> 3, to |-> 3]>>

----------------------------------------------------------------------------
(* Claims about HighlightMarkdown *)

\* sub stands in s at byte offset k
StandsAt(s, k, sub) ==
    /\ 0 <= k
    /\ k + Len(sub) <= Len(s)
    /\ Slice(s, k, k + Len(sub)) = sub

\* a line of s begins at byte offset k
LineBeginsAt(s, k) == k = 0 \/ (InRange(s, k - 1) /\ At(s, k - 1) = NL[1])

\* the construct of token t begins at offset t.StartPos of the whole text:
\* a line token stands at the start of its line, an inline span at its
\* opening marker followed by its payload, a Text token at its bytes
ConstructBeginsAt(s, t) ==
    CASE t.Type \in {TokenTypeHeading, TokenTypeQuote} ->
            /\ LineBeginsAt(s, t.StartPos)
            /\ StandsAt(s, t.EndPos - Len(t.Text), t.Text)
      [] t.Type \in {TokenTypeCodeBlock, TokenTypeList} ->
            /\ LineBeginsAt(s, t.StartPos)
            /\ StandsAt(s, t.StartPos, t.Text)
      [] t.Type = TokenTypeBold ->
            StandsAt(s, t.StartPos, <<"*", "*">> \o t.Text \o <<"*", "*">>)
      [] t.Type = TokenTypeItalic ->
            StandsAt(s, t.StartPos, <<"*">> \o t.Text \o <<"*">>)
      [] t.Type = TokenTypeCodeInline ->
            StandsAt(s, t.StartPos, <<Backtick>> \o t.Text \o <<Backtick>>)
      [] t.Type = TokenTypeLink ->
            StandsAt(s, t.StartPos, <<"[">> \o t.Text \o <<"]", "(">>)
      [] OTHER -> StandsAt(s, t.StartPos, t.Text)

\* C15: every token carries absolute byte offsets into the whole text:
\* 0 <= StartPos <= EndPos <= len(text) and the token's construct begins at
\* StartPos, also for the second and later inline tokens of a line and for
\* lines after the first.
C15_TokenOffsets ==
    \A k \in 1..Len(tokens) :
        /\ 0 <= tokens[k].StartPos
        /\ tokens[k].StartPos <= tokens[k].EndPos
        /\ tokens[k].EndPos <= Len(hlText)
        /\ ConstructBeginsAt(hlText, tokens[k])

----------------------------------------------------------------------------
(* Claims about MarkdownToHTML and updatePreview *)

\* C16: a failure of the converter leaves no partially-built state: when
\* updatePreview runs, MarkdownToHTML returns the empty string with every
\* non-nil error, returns ("", nil) for empty input without calling the
\* converter, and on an error updatePreview sets errorMsg and leaves
\* renderedHTML at its previous value.
C16_NoPartialState ==
    [][(~previewMode /\ previewMode') =>
          /\ previewErr' # "nil" =>
                /\ html' = <<>>
                /\ errorMsg' = PreviewFailed
                /\ renderedHTML' = renderedHTML
          /\ contentInput = <<>> =>
                /\ html' = <<>>
                /\ previewErr' = "nil"
                /\ ~converterCalled']_vars

\* a failed conversion after a successful one: the earlier html is kept
C16_Witness ==
    /\ previewMode
    /\ previewErr = "error"
    /\ converterCalled
    /\ html = <<>>
    /\ errorMsg = PreviewFailed
    /\ renderedHTML = <<"<p>", "a">>

====
